---- MODULE Spec2Model ----
(***************************************************************************)
(* Model of card_viewer.py: the ingestion server (OverlayServer), the      *)
(* deferred overlay update and the transition sequencing of                *)
(* MainWindow.set_overlay_custom, all run by one Qt event loop.            *)
(*                                                                         *)
(* Bytes on the wire are sequences of units.  A unit is one structural     *)
(* byte of JSON ( { } " \ : , space ), one byte of a multi-byte UTF-8      *)
(* character, or a maximal run of ordinary text bytes ("status").          *)
(* Time is counted in units of 25 ms, the greatest common divisor of the   *)
(* timer intervals of set_overlay_custom.                                  *)
(***************************************************************************)
EXTENDS Integers, Sequences, FiniteSets, TLC

\* ------------------------------------------------------------------ bounds
MaxConns == 2
ReadsCap == 3

\* ------------------------------------------------------- program constants
DepositMs == 350
QuitMs == 375
TimeUnitMs == QuitMs - DepositMs
QuitDelay == QuitMs \div TimeUnitMs
\* A deposit timer that outlasts the wait of its transition.
DepositDelayLate == QuitDelay + 1
DepositDelay == DepositMs \div TimeUnitMs

\* --------------------------------------------------------------- wire units
Q == "\""
BS == "\\"
LB == "{"
RB == "}"
Whitespace == {" ", "\n"}
Utf8Lead == "0xC3"
Utf8Cont == "0xA9"
EAcute == "U+00E9"

ACK == <<"A", "C", "K">>

Conns == 1..MaxConns

\* ------------------------------------------------------------ bytes helpers
RECURSIVE Flatten(_)
Flatten(segs) ==
    IF segs = <<>> THEN <<>> ELSE Head(segs) \o Flatten(Tail(segs))

\* bytes.decode("utf-8"): a lead byte needs its continuation byte.
RECURSIVE decode(_)
decode(b) ==
    IF b = <<>> THEN [ok |-> TRUE, text |-> <<>>]
    ELSE IF Head(b) = Utf8Lead
         THEN IF Len(b) >= 2 /\ b[2] = Utf8Cont
              THEN LET r == decode(Tail(Tail(b)))
                   IN  [ok |-> r.ok, text |-> <<EAcute>> \o r.text]
              ELSE [ok |-> FALSE, text |-> <<>>]
    ELSE IF Head(b) = Utf8Cont
         THEN [ok |-> FALSE, text |-> <<>>]
    ELSE LET r == decode(Tail(b))
         IN  [ok |-> r.ok, text |-> <<Head(b)>> \o r.text]

\* str.strip()
RECURSIVE lstrip(_)
lstrip(s) ==
    IF s # <<>> /\ Head(s) \in Whitespace THEN lstrip(Tail(s)) ELSE s

RECURSIVE rstrip(_)
rstrip(s) ==
    IF s # <<>> /\ s[Len(s)] \in Whitespace
    THEN rstrip(SubSeq(s, 1, Len(s) - 1)) ELSE s

strip(s) == rstrip(lstrip(s))

\* -------------------------------------------------------------- json.loads
\* The subset of JSON the protocol uses: one object whose member values are
\* strings.  A result is [ok, val, next]; val of an object is a function from
\* keys to values, both sequences of units.
Fail == [ok |-> FALSE, val |-> <<>>, next |-> 0]

RECURSIVE SkipWs(_, _)
SkipWs(s, i) ==
    IF i <= Len(s) /\ s[i] \in Whitespace THEN SkipWs(s, i + 1) ELSE i

\* i is the index after the opening quote.
RECURSIVE ScanString(_, _, _)
ScanString(s, i, acc) ==
    IF i > Len(s) THEN Fail
    ELSE IF s[i] = Q THEN [ok |-> TRUE, val |-> acc, next |-> i + 1]
    ELSE IF s[i] = "\n" THEN Fail
    ELSE IF s[i] = BS
         THEN IF i + 1 <= Len(s) /\ s[i + 1] \in {Q, BS}
              THEN ScanString(s, i + 2, Append(acc, s[i + 1]))
              ELSE Fail
    ELSE ScanString(s, i + 1, Append(acc, s[i]))

\* i is the index of the opening quote of a member's key.
RECURSIVE ParseMembers(_, _, _)
ParseMembers(s, i, acc) ==
    IF ~(i <= Len(s) /\ s[i] = Q) THEN Fail
    ELSE
    LET key == ScanString(s, i + 1, <<>>) IN
    IF ~key.ok THEN Fail
    ELSE
    LET c == SkipWs(s, key.next) IN
    IF ~(c <= Len(s) /\ s[c] = ":") THEN Fail
    ELSE
    LET v == SkipWs(s, c + 1) IN
    IF ~(v <= Len(s) /\ s[v] = Q) THEN Fail
    ELSE
    LET value == ScanString(s, v + 1, <<>>) IN
    IF ~value.ok THEN Fail
    ELSE
    LET obj == (key.val :> value.val) @@ acc
        m   == SkipWs(s, value.next)
    IN  IF m > Len(s) THEN Fail
        ELSE IF s[m] = RB THEN [ok |-> TRUE, val |-> obj, next |-> m + 1]
        ELSE IF s[m] = "," THEN ParseMembers(s, SkipWs(s, m + 1), obj)
        ELSE Fail

ParseObject(s, i) ==
    IF ~(i <= Len(s) /\ s[i] = LB) THEN Fail
    ELSE LET j == SkipWs(s, i + 1)
         IN  IF j <= Len(s) /\ s[j] = RB
             THEN [ok |-> TRUE, val |-> <<>>, next |-> j + 1]
             ELSE ParseMembers(s, j, <<>>)

\* ok is FALSE where json.loads raises JSONDecodeError (no value, an
\* unterminated document, extra data after the document).
json_loads(s) ==
    LET r == ParseObject(s, SkipWs(s, 1))
    IN  IF r.ok /\ SkipWs(s, r.next) = Len(s) + 1
        THEN [ok |-> TRUE, val |-> r.val]
        ELSE [ok |-> FALSE, val |-> <<>>]

\* dict.get(key, default)
get(d, key, default) == IF key \in DOMAIN d THEN d[key] ELSE default

\* ------------------------------------------------------- what senders send
\* A script is what one sender transmits on its connection: segs are the
\* runs of bytes no read splits, and the sender pauses after the first cut
\* segments (a read never crosses the pause).
Status == <<"status">>
CardData == <<"card_data">>
CardImage == <<"card_image">>
FrameType == <<"frameType">>

\* { }
NoStatusMsg ==
    [segs |-> << <<LB>>, <<" ">>, <<RB>> >>, cut |-> 3]

\* {"status":"<e acute>"}, split inside the two-byte character
OtherStatusMsg ==
    [segs |-> << <<LB, Q, "status", Q, ":">>, <<Q, Utf8Lead>>,
                 <<Utf8Cont, Q, RB>> >>,
     cut |-> 3]

\* {"status":"NewCard"} and, with no answer to it, { }
NoCardDataMsg ==
    [segs |-> << <<LB, Q, "status">>, <<Q, ":", Q, "NewCard", Q>>, <<RB>>,
                 <<LB, " ", RB>> >>,
     cut |-> 3]

\* {"status":"NewCard","card_data":"{\"frameType\":\"xyz\"}","card_image":"IMG"}
NewCardMsg ==
    [segs |-> << <<LB, Q, "status", Q, ":", Q, "NewCard", Q, ",">>,
                 <<Q, "card_data", Q, ":", Q, LB, BS>>,
                 <<Q, "frameType", BS, Q, ":", BS, Q, "xyz", BS, Q, RB, Q, ",">>,
                 <<Q, "card_image", Q, ":", Q, "IMG">>,
                 <<Q, RB>> >>,
     cut |-> 5]

\* {"status":"NewCard","card_data":"{}","card_image":"JUNK"}
BadArtMsg ==
    [segs |-> << <<LB, Q, "status", Q, ":", Q, "NewCard", Q, ",", Q, "card_data", Q, ":">>,
                 <<Q, LB, RB, Q, ",", Q, "card_image", Q>>,
                 <<":", Q, "JUNK", Q, RB>> >>,
     cut |-> 3]

\* {"status":"NewCard","card_data":"{}","card_image":"IMGA"}
BadBase64Msg ==
    [segs |-> << <<LB, Q, "status", Q, ":", Q, "NewCard", Q, ",", Q, "card_data", Q, ":">>,
                 <<Q, LB, RB, Q, ",", Q, "card_image", Q, ":", Q, "IMG">>,
                 <<"A", Q, RB>> >>,
     cut |-> 3]

\* { }{ } in one burst: the second document starts in the segment that ends
\* the first.
PipelinedMsg ==
    [segs |-> << <<LB>>, <<RB, LB>>, <<RB>> >>, cut |-> 3]

Scripts ==
    <<NoStatusMsg, OtherStatusMsg, NoCardDataMsg, NewCardMsg, BadArtMsg,
      BadBase64Msg, PipelinedMsg>>

ScriptIds == DOMAIN Scripts

\* The longest script, in segments.
MaxSegs ==
    CHOOSE n \in {Len(Scripts[i].segs) : i \in ScriptIds} :
        \A i \in ScriptIds : Len(Scripts[i].segs) <= n

\* ------------------------------------------------------ CardMakerWidget
\* Units of a card_image text: "IMG" is the base64 text of a PNG and "JUNK"
\* the base64 text of bytes that are no image, both a multiple of four
\* characters long; any other unit is one base64 character.
B64Chars(u) == IF u \in {"IMG", "JUNK"} THEN 4 ELSE 1

RECURSIVE B64Length(_)
B64Length(t) == IF t = <<>> THEN 0 ELSE B64Chars(Head(t)) + B64Length(Tail(t))

RECURSIVE B64Data(_)
B64Data(t) ==
    IF t = <<>> THEN <<>>
    ELSE (IF Head(t) = "IMG" THEN <<"PNG">>
          ELSE IF Head(t) = "JUNK" THEN <<"junk">> ELSE <<>>) \o B64Data(Tail(t))

\* base64.b64decode: ok is FALSE where it raises binascii.Error.
b64decode(t) ==
    IF B64Length(t) % 4 = 0 THEN [ok |-> TRUE, data |-> B64Data(t)]
    ELSE [ok |-> FALSE, data |-> <<>>]

\* QPixmap.loadFromData
loadFromData(data) == data = <<"PNG">>

\* CardMakerWidget.__init__: ok is FALSE where it raises.
CardMakerWidget(card_data, image_path, extra_args) ==
    LET image_data == b64decode(image_path)
    IN  IF image_data.ok /\ loadFromData(image_data.data)
        THEN [ok |-> TRUE, card_data |-> card_data, card_art |-> image_data.data,
              extra_args |-> extra_args]
        ELSE [ok |-> FALSE, card_data |-> card_data, card_art |-> <<>>,
              extra_args |-> extra_args]

\* -------------------------------------------------- values of a card record
\* A value of the card_data dictionary carries its Python type, with its
\* text or list in s and its number in n.  A text is a sequence of pieces:
\* "xyz_pendulum" is <<"xyz", "_", "pendulum">>, the text "12" is
\* <<"1", "2">>.
PyStr(s) == [t |-> "str", s |-> s, n |-> 0]
PyInt(n) == [t |-> "int", s |-> <<>>, n |-> n]
PyList(l) == [t |-> "list", s |-> l, n |-> 0]
PyNone == [t |-> "NoneType", s |-> <<>>, n |-> 0]

IsStr(x, s) == x.t = "str" /\ x.s = s

\* str.lower() and str.upper(), piece by piece.
LowerPiece(u) ==
    CASE u = "XYZ" -> "xyz" [] u = "Xyz" -> "xyz"
      [] u = "LINK" -> "link" [] u = "Link" -> "link"
      [] u = "SPELL" -> "spell" [] u = "Spell" -> "spell"
      [] u = "TRAP" -> "trap" [] u = "Trap" -> "trap"
      [] u = "PENDULUM" -> "pendulum" [] u = "Pendulum" -> "pendulum"
      [] u = "EFFECT" -> "effect" [] u = "Effect" -> "effect"
      [] u = "NORMAL" -> "normal" [] u = "Normal" -> "normal"
      [] OTHER -> u

lower(s) == [i \in DOMAIN s |-> LowerPiece(s[i])]

startswith(s, prefix) == Len(s) >= 1 /\ s[1] = prefix

\* "piece" in s
contains(s, piece) == \E i \in DOMAIN s : s[i] = piece

Digits == <<"0", "1", "2", "3", "4", "5", "6", "7", "8", "9">>

DigitValue(u) == (CHOOSE i \in DOMAIN Digits : Digits[i] = u) - 1

IsDigits(s) == s # <<>> /\ \A i \in DOMAIN s : \E d \in DOMAIN Digits : Digits[d] = s[i]

RECURSIVE DigitsValue(_)
DigitsValue(s) ==
    IF s = <<>> THEN 0
    ELSE 10 * DigitsValue(SubSeq(s, 1, Len(s) - 1)) + DigitValue(s[Len(s)])

\* int(value): ok is FALSE where it raises ValueError or TypeError.
int(value) ==
    CASE value.t = "int" -> [ok |-> TRUE, val |-> value.n]
      [] value.t = "str" ->
            LET body == strip(value.s)
                signed == body # <<>> /\ body[1] \in {"-", "+"}
                digits == IF signed THEN Tail(body) ELSE body
            IN  IF IsDigits(digits)
                THEN [ok |-> TRUE,
                      val |-> IF signed /\ body[1] = "-"
                              THEN 0 - DigitsValue(digits) ELSE DigitsValue(digits)]
                ELSE [ok |-> FALSE, val |-> 0]
      [] OTHER -> [ok |-> FALSE, val |-> 0]

\* A star count that is not limited.
minUnclamped(a, b) == a

min(a, b) == IF a <= b THEN a ELSE b

\* ------------------------------------------------- CardMakerWidget drawing
\* What the painter is asked to draw, in order: one entry per drawing call
\* that matters to the layout.  Glyph metrics and coordinates are left out.
Draw(op, arg) == <<[op |-> op, arg |-> arg]>>

SpellTrapTypes == {<<"Spell Card">>, <<"Trap Card">>}

\* card_type in ("Spell Card", "Trap Card")
IsSpellTrapType(card_data) ==
    LET card_type == get(card_data, <<"type">>, PyStr(<<>>))
    IN  card_type.t = "str" /\ card_type.s \in SpellTrapTypes

\* self.card_data.get("frameType", "").lower()
frame_type(card_data) == lower(get(card_data, <<"frameType">>, PyStr(<<>>)).s)

\* The star images of the installation load.
level_star_isNull == FALSE
rank_star_isNull == FALSE

Stars(op, stars_count) == [i \in 1..stars_count |-> [op |-> op, arg |-> <<>>]]

draw_level_stars(level_value, max_stars) ==
    LET parsed == int(level_value)
        level == IF parsed.ok THEN parsed.val ELSE 0
        stars_count == min(level, max_stars)
    IN  IF level_star_isNull \/ stars_count <= 0 THEN <<>>
        ELSE Stars("level_star", stars_count)

draw_rank_stars(level_value, max_stars) ==
    LET parsed == int(level_value)
        level == IF parsed.ok THEN parsed.val ELSE 0
        stars_count == min(level, max_stars)
    IN  IF rank_star_isNull \/ stars_count <= 0 THEN <<>>
        ELSE Stars("rank_star", stars_count)

MaxLevelStars == 12
MaxRankStars == 13

draw_level_and_rank_stars(card_data) ==
    IF ~IsSpellTrapType(card_data)
    THEN IF startswith(frame_type(card_data), "xyz")
         THEN draw_rank_stars(get(card_data, <<"level">>, PyInt(0)), MaxRankStars)
         ELSE draw_level_stars(get(card_data, <<"level">>, PyInt(0)), MaxLevelStars)
    ELSE <<>>

draw_card_art(pendulum) ==
    Draw("card_art", IF pendulum THEN <<"pend_art_rect">> ELSE <<"art_rect">>)

draw_pendulum_frame == Draw("pendulum_frame", <<>>)

\* The arrow images of the installation.
ArrowNames == {"Top", "Bottom", "Left", "Right", "Top-Left", "Top-Right",
               "Bottom-Left", "Bottom-Right"}

RECURSIVE Arrows(_)
Arrows(link_arrows) ==
    IF link_arrows = <<>> THEN <<>>
    ELSE (IF Head(link_arrows) \in ArrowNames
          THEN Draw("arrow", <<Head(link_arrows)>>) ELSE <<>>)
         \o Arrows(Tail(link_arrows))

draw_link_arrows(card_data) ==
    LET link_arrows == get(card_data, <<"linkmarkers">>, PyList(<<>>))
    IN  IF link_arrows.s = <<>> THEN <<>>
        ELSE Draw("link_arrows_base", <<>>) \o Arrows(link_arrows.s)

draw_card_name(card_data) ==
    Draw("name", get(card_data, <<"name">>, PyStr(<<"Unknown Card">>)).s)

draw_spell_trap_text(card_data) ==
    IF IsSpellTrapType(card_data) THEN Draw("spell_trap_text", <<>>) ELSE <<>>

\* The attribute icons of the installation, by file name.
AttributeIcons ==
    {<<"spell", ".svg">>, <<"trap", ".svg">>, <<"dark", ".png">>,
     <<"light", ".png">>}

draw_attribute(card_data) ==
    LET spelltrap == frame_type(card_data) \in {<<"trap">>, <<"spell">>}
        attribute_text ==
            IF spelltrap THEN frame_type(card_data)
            ELSE get(card_data, <<"attribute">>, PyStr(<<>>)).s
        ext_attr == IF spelltrap THEN ".svg" ELSE ".png"
        attribute_path == lower(attribute_text) \o <<ext_attr>>
    IN  IF attribute_path \in AttributeIcons
        THEN Draw("attribute", attribute_path) ELSE <<>>

draw_typeline(card_data) ==
    IF IsSpellTrapType(card_data) THEN <<>> ELSE Draw("typeline", <<>>)

draw_description(card_data, pendulum) ==
    IF pendulum
    THEN Draw("description", <<"pend_desc">>) \o Draw("description", <<"monster_desc">>)
    ELSE Draw("description", <<"desc">>)

RECURSIVE NatText(_)
NatText(n) ==
    IF n < 10 THEN <<Digits[n + 1]>>
    ELSE Append(NatText(n \div 10), Digits[(n % 10) + 1])

\* str(value) of a number or a text.
str(value) ==
    CASE value.t = "int" ->
            IF value.n < 0 THEN <<"-">> \o NatText(0 - value.n) ELSE NatText(value.n)
      [] value.t = "str" -> value.s
      [] OTHER -> <<"None">>

\* atk == -1 and deff == -1 are shown as "?".
StatText(value) ==
    IF value.t = "int" /\ value.n = -1 THEN <<"?">> ELSE str(value)

draw_stats(card_data, link) ==
    Draw("text", <<"ATK/">>)
    \o Draw("value", StatText(get(card_data, <<"atk">>, PyStr(<<>>))))
    \o (IF ~link
        THEN Draw("text", <<"DEF/">>)
             \o Draw("value", StatText(get(card_data, <<"def">>, PyStr(<<>>))))
        ELSE Draw("text", <<"LINK">>) \o Draw("text", <<"-">>)
             \o Draw("link_rating", str(get(card_data, <<"linkval">>, PyStr(<<>>)))))

draw_separator == Draw("separator", <<>>)

draw_pendulum_scales(card_data) ==
    Draw("scale", str(get(card_data, <<"scale">>, PyStr(<<>>))))

draw_extra == Draw("extra", <<>>)

draw_card_content(card_data) ==
    LET pendulum == contains(frame_type(card_data), "pendulum")
        link == frame_type(card_data) = <<"link">>
    IN  Draw("background", <<>>)
        \o draw_card_art(pendulum)
        \o (IF pendulum THEN draw_pendulum_frame ELSE <<>>)
        \o (IF link THEN draw_link_arrows(card_data) ELSE <<>>)
        \o draw_card_name(card_data)
        \o draw_level_and_rank_stars(card_data)
        \o draw_spell_trap_text(card_data)
        \o draw_attribute(card_data)
        \o draw_typeline(card_data)
        \o draw_description(card_data, pendulum)
        \o (IF ~IsSpellTrapType(card_data)
            THEN draw_stats(card_data, link) \o draw_separator ELSE <<>>)
        \o (IF pendulum THEN draw_pendulum_scales(card_data) ELSE <<>>)
        \o draw_extra

\* ------------------------------------------ the fit of the description
\* A text is a number of words of word_len characters each, in quotation
\* marks or not.  A font is its family, its size in points, its weight and
\* its letter spacing in half pixels.  A rectangle is its width and height
\* in pixels.
QFont(family, font_size, weight) ==
    [family |-> family, font_size |-> font_size, weight |-> weight,
     letter_spacing |-> 0]

setLetterSpacing(font, letter_spacing) ==
    [font EXCEPT !.letter_spacing = letter_spacing]

\* text.strip('\'"'): the lengths of the words measured and drawn.
stripQuotes(text) == [i \in 1..text.words |-> text.word_len]

WordsOf(text) ==
    [i \in 1..text.words |->
        text.word_len
        + (IF text.quoted /\ i = 1 THEN 1 ELSE 0)
        + (IF text.quoted /\ i = text.words THEN 1 ELSE 0)]

\* The lines the words take when wrapped at width, each character advance
\* wide, from word i on with used of the line taken.
RECURSIVE WrapLines(_, _, _, _, _)
WrapLines(words, i, used, width, advance) ==
    IF i > Len(words) THEN 1
    ELSE LET w == words[i] * advance
         IN  IF used = 0 THEN WrapLines(words, i + 1, w, width, advance)
             ELSE IF used + advance + w <= width
             THEN WrapLines(words, i + 1, used + advance + w, width, advance)
             ELSE 1 + WrapLines(words, i, 0, width, advance)

\* QFontMetrics(font).boundingRect(rect, Qt.TextWordWrap, text).height():
\* a character is taken to be half the font size wide plus the letter
\* spacing, and a line 4 pixels higher than the font size.
boundingHeight(rect, words, font) ==
    WrapLines(words, 1, 0, 2 * rect.w, font.font_size + font.letter_spacing)
        * (font.font_size + 4)

NoFont == [family |-> "None", font_size |-> 0, weight |-> "None",
           letter_spacing |-> 0]

\* A step of the letter spacing that passes over -0.5.
NextLetterSpacingSkips(letter_spacing) == letter_spacing - 2

\* letter_spacing -= 0.5
NextLetterSpacing(letter_spacing) == letter_spacing - 1

\* The while loop of draw_fitted_description for one font size.
RECURSIVE SpacingLoop(_, _, _, _, _, _)
SpacingLoop(rect, words, lore, font_size, letter_spacing, min_letter_spacing) ==
    IF letter_spacing >= min_letter_spacing
    THEN LET font == setLetterSpacing(
                         QFont(IF lore THEN "lore_font" ELSE "main_font",
                               font_size, "Light"),
                         letter_spacing)
         IN  IF boundingHeight(rect, words, font) <= rect.h THEN font
             ELSE SpacingLoop(rect, words, lore, font_size,
                              NextLetterSpacing(letter_spacing),
                              min_letter_spacing)
    ELSE NoFont

\* The for loop of draw_fitted_description from font_size down.
RECURSIVE SizeLoop(_, _, _, _, _, _)
SizeLoop(rect, words, lore, font_size, min_font_size, min_letter_spacing) ==
    IF font_size < min_font_size THEN NoFont
    ELSE LET chosen_font == SpacingLoop(rect, words, lore, font_size, 0,
                                        min_letter_spacing)
         IN  IF chosen_font # NoFont THEN chosen_font
             ELSE SizeLoop(rect, words, lore, font_size - 1, min_font_size,
                           min_letter_spacing)

\* draw_fitted_description: the font the text is drawn with.
draw_fitted_description(card_data, rect, text, max_font_size, min_font_size, min_letter_spacing) ==
    LET lore == frame_type(card_data) = <<"normal">>
        words == IF lore THEN stripQuotes(text) ELSE WordsOf(text)
        chosen_font == SizeLoop(rect, words, lore, max_font_size,
                                min_font_size, min_letter_spacing)
    IN  [rect |-> rect, words |-> words, min_font_size |-> min_font_size,
         font |-> IF chosen_font = NoFont
                  THEN setLetterSpacing(
                           QFont("main_font", min_font_size, "Normal"),
                           min_letter_spacing)
                  ELSE chosen_font]

\* _draw_description: the fitted texts it draws, in order.
draw_description_fitted(card_data, pendulum, text) ==
    LET offset_desc2 == IF IsSpellTrapType(card_data) THEN 40 ELSE 0
        desc_rect == [w |-> 465, h |-> 99 + offset_desc2]
        pend_desc_rect == [w |-> 380, h |-> 85]
    IN  IF pendulum
        THEN << draw_fitted_description(card_data, pend_desc_rect, text, 12, 8, -2),
                draw_fitted_description(card_data, desc_rect, text, 12, 9, -2) >>
        ELSE << draw_fitted_description(card_data, desc_rect, text, 12, 9, -2) >>

\* The pixmap render_to_pixmap paints: a function of what the widget holds.
render_to_pixmap(card_widget) ==
    [card |-> card_widget.card_data, art |-> card_widget.card_art,
     painted |-> draw_card_content(
                     [k \in DOMAIN card_widget.card_data |->
                         PyStr(card_widget.card_data[k])])]

\* QPixmap("Default.png")
DefaultPixmap == [card |-> <<>>, art |-> <<"Default.png">>, painted |-> <<>>]
NoPixmap == [card |-> <<>>, art |-> <<>>, painted |-> <<>>]

DefaultFrame == <<"Default">>

\* ------------------------------------------------------- AnimatedWebPLabel
\* An image is its size and its pixels; a pixel is held by hue, saturation,
\* value and alpha, each 0..255.  Hue is in whole degrees, saturation in
\* tenths (10 is the factor 1.0).
Pixels(w, h) == (0..(w - 1)) \X (0..(h - 1))

Transparent == [hue |-> 0, sat |-> 0, val |-> 0, a |-> 0]

\* int(x / y) of Python: towards zero.
TruncDiv(x, y) == IF x >= 0 THEN x \div y ELSE 0 - ((0 - x) \div y)

Clamp255(x) == IF x < 0 THEN 0 ELSE IF x > 255 THEN 255 ELSE x

\* adjust_hue: the hue channel is shifted modulo 256; converting back from
\* HSV resets alpha.
adjust_hue(image, hue) ==
    LET shift == TruncDiv(hue * 255, 360)
    IN  [image EXCEPT !.px = [p \in DOMAIN image.px |->
            [image.px[p] EXCEPT !.hue = (@ + shift) % 256, !.a = 255]]]

\* ImageEnhance.Color(image).enhance(saturation)
EnhanceColor(image, saturation) ==
    [image EXCEPT !.px = [p \in DOMAIN image.px |->
        [image.px[p] EXCEPT !.sat = Clamp255((@ * saturation) \div 10)]]]

\* ImageEnhance.Brightness(image).enhance(1.0 + brightness / 150.0)
EnhanceBrightness(image, brightness) ==
    [image EXCEPT !.px = [p \in DOMAIN image.px |->
        [image.px[p] EXCEPT !.val = Clamp255((@ * (150 + brightness)) \div 150)]]]

\* The three adjustments, each skipped at its neutral value.
Adjusted(image, hue, saturation, brightness) ==
    LET a == IF hue # 0 THEN adjust_hue(image, hue) ELSE image
        b == IF saturation # 10 THEN EnhanceColor(a, saturation) ELSE a
    IN  IF brightness # 0 THEN EnhanceBrightness(b, brightness) ELSE b

\* frame.crop(region_box): what lies outside the frame is transparent.
crop(frame, region) ==
    [w |-> region[3], h |-> region[4],
     px |-> [p \in Pixels(region[3], region[4]) |->
                LET q == <<p[1] + region[1], p[2] + region[2]>>
                IN  IF q \in DOMAIN frame.px THEN frame.px[q] ELSE Transparent]]

\* frame.paste(mod_region, region_box)
paste(frame, mod_region, region) ==
    [frame EXCEPT !.px = [q \in DOMAIN frame.px |->
        LET p == <<q[1] - region[1], q[2] - region[2]>>
        IN  IF p \in DOMAIN mod_region.px THEN mod_region.px[p] ELSE frame.px[q]]]

\* A mask of the fully transparent pixels only.
MaskTransparentOnly(orig_arr, p) == orig_arr[p].a = 0

\* translucent_mask = (orig_arr[:, :, 3] < 255)
translucent_mask(orig_arr, p) == orig_arr[p].a < 255

\* transparent_mask = (orig_arr[:, :, 3] == 0)
transparent_mask(orig_arr, p) == orig_arr[p].a = 0

\* region is <<x, y, w, h>>, or <<>> for None.
adjust_frame(frame, hue, saturation, brightness, region) ==
    IF region # <<>>
    THEN LET orig_region == crop(frame, region)
             mod_region == Adjusted(orig_region, hue, saturation, brightness)
             mod_arr == [p \in DOMAIN mod_region.px |->
                            IF translucent_mask(orig_region.px, p)
                            THEN orig_region.px[p] ELSE mod_region.px[p]]
         IN  paste(frame, [mod_region EXCEPT !.px = mod_arr], region)
    ELSE LET mod == Adjusted(frame, hue, saturation, brightness)
         IN  [mod EXCEPT !.px = [p \in DOMAIN mod.px |->
                 IF transparent_mask(frame.px, p) THEN frame.px[p] ELSE mod.px[p]]]

\* ---------------------------------------------------------- OverlayServer
\* A read that replaces the accumulator instead of appending to it.
AccumulateOverwrite(buffer, new_data) == new_data

\* self.buffers[socket] += bytes(new_data)
Accumulate(buffer, new_data) == buffer \o new_data

\* One accumulator shared by every connection.
senderShared(socket) == 1

\* self.sender(): the socket whose readyRead is being delivered.
sender(socket) == socket

\* A status value no message handler matches.
NewCardMisspelt == <<"newcard">>

NewCard == <<"NewCard">>

\* What read_client does with the accumulated bytes.  raised: an exception
\* left read_client after the try block (no ACK, no close, no overlay
\* update); invoked: CardMakerWidget was constructed; rendered:
\* render_to_pixmap was called.
Dispatch(data) ==
    IF Status \in DOMAIN data /\ data[Status] = NewCard
    THEN LET card_data == json_loads(get(data, CardData, <<>>))
             image_path == get(data, CardImage, <<>>)
             extra_args == [set_string |-> get(data, <<"set_string">>, <<>>),
                            edition |-> get(data, <<"edition">>, <<>>),
                            passcode |-> get(data, <<"passcode">>, <<>>)]
             card_widget == CardMakerWidget(card_data.val, image_path, extra_args)
         IN  IF ~card_data.ok
             THEN [raised |-> TRUE, invoked |-> FALSE, rendered |-> FALSE,
                   frame |-> DefaultFrame, pix |-> DefaultPixmap]
             ELSE IF ~card_widget.ok
             THEN [raised |-> TRUE, invoked |-> TRUE, rendered |-> FALSE,
                   frame |-> get(card_data.val, FrameType, DefaultFrame),
                   pix |-> DefaultPixmap]
             ELSE [raised |-> FALSE, invoked |-> TRUE, rendered |-> TRUE,
                   frame |-> get(card_data.val, FrameType, DefaultFrame),
                   pix |-> render_to_pixmap(card_widget)]
    ELSE [raised |-> FALSE, invoked |-> FALSE, rendered |-> FALSE,
          frame |-> DefaultFrame, pix |-> DefaultPixmap]

Decode(buffer) ==
    LET b == decode(buffer)
    IN  IF b.ok THEN json_loads(strip(b.text)) ELSE [ok |-> FALSE, val |-> <<>>]

\* A handler that leaves the answer to the deferred callback.
RespondDeferred == <<>>

\* The socket calls read_client makes once the message is dispatched, in
\* the order it makes them.
Respond == << [op |-> "write", data |-> ACK],
             [op |-> "disconnectFromHost", data |-> <<>>] >>

\* A queue that runs the newest callback first.
singleShotNewestFirst(queue, callback) == <<callback>> \o queue

\* QTimer.singleShot(0, ...): the callback joins the queue of the event loop.
singleShot(queue, callback) == Append(queue, callback)

\* ------------------------------------------- MainWindow and its labels
\* The animated labels MainWindow.__init__ builds, each with the opacity it
\* starts with (in percent).
InitialOpacity ==
    [webp_border_label |-> 100, webp_main_token_label |-> 100,
     webp_main_spell_label |-> 0, webp_main_trap_label |-> 0,
     webp_main_label |-> 0, webp_main_normal_label |-> 0,
     webp_main_ritual_label |-> 0, webp_main_fusion_label |-> 0,
     webp_main_synchro_label |-> 0, webp_link_label |-> 0,
     webp_xyz_label |-> 0, webp_main_pendulum_label |-> 0,
     webp_artframe_label |-> 100, webp_desc_label |-> 100,
     webp_title_label |-> 100]

Labels == DOMAIN InitialOpacity

\* The frames each asset of the window holds.
AssetFrames == 2

\* AnimatedWebPLabel.__init__.  frames is the number of frames held, pixmap
\* the index of the frame the label shows (-1: none), timer_active whether
\* the 42 ms timer runs, opacity that of the opacity effect in percent; state,
\* startValue, endValue, duration and currentTime are those of
\* fade_animation.  Until a fade is started the animation has no start and
\* end value: the opacity the label rests at stands for both.
AnimatedWebPLabel(initial_opacity) ==
    [frames |-> 0, current_frame |-> 0, pixmap |-> -1, timer_active |-> FALSE,
     opacity |-> initial_opacity, state |-> "Stopped",
     startValue |-> initial_opacity, endValue |-> initial_opacity,
     duration |-> 1000, currentTime |-> 0, is_fading_out |-> FALSE]

\* AnimatedAPNGLabel.__init__
AnimatedAPNGLabel ==
    [frames |-> 0, current_frame |-> 0, pixmap |-> -1, timer_active |-> FALSE]

\* An update_frame that shows the frame after the advance.
update_frameAfterAdvance(label) ==
    IF label.frames > 0
    THEN [label EXCEPT !.pixmap = (label.current_frame + 1) % label.frames,
                       !.current_frame = (@ + 1) % label.frames]
    ELSE label

\* update_frame, of AnimatedWebPLabel and of AnimatedAPNGLabel alike;
\* next_frame is a call of it.
update_frame(label) ==
    IF label.frames > 0
    THEN [label EXCEPT !.pixmap = label.current_frame,
                       !.current_frame = (@ + 1) % label.frames]
    ELSE label

\* set_webp and set_apng once the frame_count frames of the file are read.
set_webp_frames(label, frame_count) ==
    update_frame([label EXCEPT !.frames = frame_count, !.current_frame = 0,
                               !.timer_active = TRUE])

\* AnimatedAPNGLabel.restart
restart(label) == update_frame([label EXCEPT !.current_frame = 0])

\* A stop that leaves the animation running.
stopNot(label) == label

\* fade_animation.stop(): no finished signal is sent.  The start value and
\* the current time of a stopped animation are read by nothing before the
\* next fade sets them anew, and are kept only while it runs.
stop(label) ==
    [label EXCEPT !.state = "Stopped", !.startValue = label.endValue,
                  !.currentTime = 0]

\* fade_animation.start()
start(label) ==
    [label EXCEPT !.state = "Running", !.currentTime = 0,
                  !.opacity = label.startValue]

\* A fade_in that leaves the frame index and the timer alone.
fade_inNoRestart(label, duration) ==
    start([stop(label) EXCEPT !.duration = duration,
                              !.startValue = label.opacity, !.endValue = 100])

fade_in(label, duration) ==
    start([stop(label) EXCEPT !.current_frame = 0, !.timer_active = TRUE,
                              !.duration = duration,
                              !.startValue = label.opacity, !.endValue = 100])

\* The slot _on_fade_out_finished is connected by fade_out and disconnected
\* by itself, so it is connected whenever is_fading_out is set, and when
\* is_fading_out is not set it changes nothing.
fade_out(label, duration) ==
    start([stop(label) EXCEPT !.is_fading_out = TRUE, !.duration = duration,
                              !.startValue = label.opacity, !.endValue = 0])

on_fade_out_finished(label) ==
    IF label.is_fading_out
    THEN [label EXCEPT !.timer_active = FALSE, !.is_fading_out = FALSE]
    ELSE label

set_opacity(label, opacity) == [stop(label) EXCEPT !.opacity = opacity]

\* QEasingCurve.InOutQuad at time t of d, as a fraction <<num, den>>.
InOutQuad(t, d) ==
    IF 2 * t < d THEN <<2 * t * t, d * d>>
    ELSE <<d * d - 2 * (d - t) * (d - t), d * d>>

\* The animation of a label when TimeUnitMs more have passed: the opacity
\* follows the curve, and at the end of the duration the animation stops
\* and sends finished, which runs the slot at once.
updateCurrentTime(label) ==
    IF label.state # "Running" THEN label
    ELSE LET t == IF label.currentTime + TimeUnitMs < label.duration
                  THEN label.currentTime + TimeUnitMs ELSE label.duration
             e == InOutQuad(t, label.duration)
             moved == [label EXCEPT
                         !.currentTime = t,
                         !.opacity = label.startValue
                            + TruncDiv((label.endValue - label.startValue) * e[1],
                                       e[2])]
         IN  IF t < label.duration THEN moved
             ELSE on_fade_out_finished(
                      [stop(moved) EXCEPT !.opacity = label.endValue])

get_border_widget(border) ==
    IF border = <<"spell">> THEN "webp_main_spell_label"
    ELSE IF border = <<"trap">> THEN "webp_main_trap_label"
    ELSE IF startswith(border, "xyz") THEN "webp_xyz_label"
    ELSE IF startswith(border, "fusion") THEN "webp_main_fusion_label"
    ELSE IF startswith(border, "normal") THEN "webp_main_normal_label"
    ELSE IF startswith(border, "effect") THEN "webp_main_label"
    ELSE IF startswith(border, "ritual") THEN "webp_main_ritual_label"
    ELSE IF startswith(border, "link") THEN "webp_link_label"
    ELSE IF startswith(border, "synchro") THEN "webp_main_synchro_label"
    ELSE "None"

\* One call made by set_overlay_custom.
Call(op, widget, arg) == <<[op |-> op, widget |-> widget, arg |-> arg]>>

\* A fade_border that fades the other way.
fade_borderReversed(border, fade_method, duration) ==
    LET widget == get_border_widget(border)
    IN  IF widget # "None"
        THEN Call(IF fade_method = "fade_in" THEN "fade_out" ELSE "fade_in",
                  widget, duration)
        ELSE <<>>

\* A fade_border that fades nothing.
fade_borderNever(border, fade_method, duration) == <<>>

fade_border(border, fade_method, duration) ==
    LET widget == get_border_widget(border)
    IN  IF widget # "None" THEN Call(fade_method, widget, duration) ELSE <<>>

\* A test that takes no border for a pendulum variant.
IsPendulumBorderNever(border) == FALSE

\* "_pendulum" in border
IsPendulumBorder(border) ==
    \E i \in 1..(Len(border) - 1) : border[i] = "_" /\ border[i + 1] = "pendulum"

fadeout_duration == 250
fadein_duration == 500

\* The calls of set_overlay_custom up to loop.exec(), in the order it makes
\* them; the assignment to active_border is one of them.
TransitionCalls(border, frame) ==
    fade_border(border, "fade_out", fadeout_duration)
    \o (IF IsPendulumBorder(border)
        THEN Call("fade_out", "webp_main_pendulum_label", fadeout_duration)
             \o Call("fade_in", "webp_desc_label", fadein_duration)
             \o Call("fade_in", "webp_artframe_label", fadein_duration)
        ELSE <<>>)
    \o Call("active_border", "None", 0)
    \o fade_border(frame, "fade_in", fadein_duration)
    \o (IF IsPendulumBorder(frame)
        THEN Call("fade_in", "webp_main_pendulum_label", fadein_duration)
             \o Call("fade_out", "webp_desc_label", fadeout_duration)
             \o Call("fade_out", "webp_artframe_label", fadeout_duration)
        ELSE <<>>)
    \o Call("opacity_animation.start", "overlay", 0)
    \o Call("setVisible", "transition_overlay", 100)
    \o Call("restart", "transition_overlay", 0)
    \o Call("play", "transition_sound", 0)

\* The labels after the fades among these calls, made in order.
RECURSIVE Faded(_, _)
Faded(labels, calls) ==
    IF calls = <<>> THEN labels
    ELSE LET c == Head(calls)
         IN  Faded(IF c.op = "fade_in"
                   THEN [labels EXCEPT ![c.widget] = fade_in(@, c.arg)]
                   ELSE IF c.op = "fade_out"
                   THEN [labels EXCEPT ![c.widget] = fade_out(@, c.arg)]
                   ELSE labels,
                   Tail(calls))

\* ------------------------------------------------------------------ state
VARIABLES
    sockState,      \* per connection: unopened, connected, closing, unconnected
    script,         \* per connection: what its sender transmits (0: nothing yet)
    delivered,      \* per connection: segments of the script read so far
    reads,          \* per connection: readyRead events so far, up to ReadsCap
    buffers,        \* OverlayServer.buffers
    sockOps,        \* per connection: the socket calls the server has made
    dispatched,     \* per connection: the documents read_client has parsed
    completed,      \* what became of each parsed document, in order of parsing
    deferred,       \* callbacks queued by QTimer.singleShot(0, ...)
    started,        \* connections whose overlay update has begun, in order
    active_border,  \* MainWindow.active_border
    labels,         \* the animated labels of MainWindow, by attribute name
    overlay_pixmap, \* the pixmap of MainWindow.overlay
    opacity_animation,          \* start and end value of the overlay's animation
    transition_overlay_visible, \* MainWindow.transition_overlay.isVisible()
    stack,          \* the set_overlay_custom calls inside loop.exec(), outermost first
    timers,         \* the running single-shot timers of set_overlay_custom
    call,           \* a compositor or sprite function and its arguments
    result,         \* what that call returned or painted
    sprite          \* an animated label exercised by itself

netVars == <<sockState, script, delivered, reads, buffers, sockOps, dispatched,
             completed, deferred>>
winVars == <<started, active_border, labels, overlay_pixmap, opacity_animation,
             transition_overlay_visible, stack, timers>>
vars == <<sockState, script, delivered, reads, buffers, sockOps, dispatched,
          completed, deferred, started, active_border, labels, overlay_pixmap,
          opacity_animation, transition_overlay_visible, stack, timers,
          call, result, sprite>>
fnVars == <<call, result, sprite>>

NoCall == [fn |-> "none"]
NoResult == [done |-> FALSE, val |-> <<>>]
NoSprite == <<>>


\* The window and its server, constructed and idle.
Constructed ==
    /\ sockState = [c \in Conns |-> "unopened"]
    /\ script = [c \in Conns |-> 0]
    /\ delivered = [c \in Conns |-> 0]
    /\ reads = [c \in Conns |-> 0]
    /\ buffers = <<>>
    /\ sockOps = [c \in Conns |-> <<>>]
    /\ dispatched = [c \in Conns |-> <<>>]
    /\ completed = <<>>
    /\ deferred = <<>>
    /\ started = <<>>
    /\ active_border = <<"token">>
    /\ labels = [l \in Labels |->
                    set_webp_frames(AnimatedWebPLabel(InitialOpacity[l]),
                                    AssetFrames)]
    /\ overlay_pixmap = NoPixmap
    /\ opacity_animation = [startValue |-> 100, endValue |-> 100]
    /\ transition_overlay_visible = FALSE
    /\ stack = <<>>
    /\ timers = <<>>

Init ==
    /\ Constructed
    /\ call = NoCall
    /\ result = NoResult
    /\ sprite = NoSprite

\* dict.pop(key, None)
pop(d, key) == [k \in DOMAIN d \ {key} |-> d[k]]

\* The bytes connection c has received so far.
Received(c) ==
    IF script[c] = 0 THEN <<>>
    ELSE Flatten(SubSeq(Scripts[script[c]].segs, 1, delivered[c]))

\* A sender connects and the server accepts it; the sender has chosen what
\* it will transmit.
handle_new_connection(c, s) ==
    /\ sockState[c] = "unopened"
    /\ \A d \in Conns : d < c => sockState[d] # "unopened"
    /\ sockState' = [sockState EXCEPT ![c] = "connected"]
    /\ script' = [script EXCEPT ![c] = s]
    /\ buffers' = (c :> <<>>) @@ buffers
    /\ UNCHANGED <<delivered, reads, sockOps, dispatched, completed, deferred>>
    /\ UNCHANGED winVars
    /\ UNCHANGED fnVars

\* readyRead of connection c with the next k segments of its script.
read_client(c, k) ==
    /\ sockState[c] = "connected"
    /\ LET sc == Scripts[script[c]]
           limit == IF delivered[c] < sc.cut THEN sc.cut ELSE Len(sc.segs)
           socket == sender(c)
       IN
       /\ k \in 1..(limit - delivered[c])
       /\ delivered' = [delivered EXCEPT ![c] = @ + k]
       /\ reads' = [reads EXCEPT ![c] = IF @ < ReadsCap THEN @ + 1 ELSE @]
       /\ IF socket \notin DOMAIN buffers
          THEN \* KeyError
               UNCHANGED <<sockState, buffers, sockOps, dispatched, completed, deferred>>
          ELSE
          LET new_data == Flatten(SubSeq(sc.segs, delivered[c] + 1, delivered[c] + k))
              buffer == Accumulate(buffers[socket], new_data)
              data == Decode(buffer)
              d == Dispatch(data.val)
          IN  IF ~data.ok
              THEN \* UnicodeDecodeError or JSONDecodeError: wait for more data
                   /\ buffers' = [buffers EXCEPT ![socket] = buffer]
                   /\ UNCHANGED <<sockState, sockOps, dispatched, completed, deferred>>
              ELSE /\ buffers' = [buffers EXCEPT ![socket] = <<>>]
                   /\ dispatched' = [dispatched EXCEPT ![c] = Append(@, data.val)]
                   /\ completed' = Append(completed,
                                          [conn |-> c, scheduled |-> ~d.raised,
                                           data |-> data.val,
                                           invoked |-> d.invoked,
                                           rendered |-> d.rendered])
                   /\ IF d.raised
                      THEN UNCHANGED <<sockState, sockOps, deferred>>
                      ELSE /\ sockOps' = [sockOps EXCEPT ![c] = @ \o Respond]
                           /\ sockState' = [sockState EXCEPT ![c] = "closing"]
                           /\ deferred' = singleShot(deferred,
                                  [id |-> c, frame |-> d.frame, card_pixmap |-> d.pix])
    /\ UNCHANGED script
    /\ UNCHANGED winVars
    /\ UNCHANGED fnVars

\* The written bytes have left and the socket disconnects: the disconnected
\* signal runs the lambda of handle_new_connection.
disconnected(c) ==
    /\ sockState[c] = "closing"
    /\ sockState' = [sockState EXCEPT ![c] = "unconnected"]
    /\ buffers' = pop(buffers, c)
    /\ UNCHANGED <<script, delivered, reads, sockOps, dispatched, completed, deferred>>
    /\ UNCHANGED winVars
    /\ UNCHANGED fnVars

\* A sender that has transmitted everything and has no answer gives up and
\* closes; the same lambda runs.
peer_closed(c) ==
    /\ sockState[c] = "connected"
    /\ delivered[c] = Len(Scripts[script[c]].segs)
    /\ sockState' = [sockState EXCEPT ![c] = "unconnected"]
    /\ buffers' = pop(buffers, c)
    /\ UNCHANGED <<script, delivered, reads, sockOps, dispatched, completed, deferred>>
    /\ UNCHANGED winVars
    /\ UNCHANGED fnVars

\* ------------------------------------------------------------- MainWindow
\* A set_overlay_custom that starts no timer for loop.quit.
StartTimersNoQuit(id, card_pixmap) ==
    << [kind |-> "update_overlay", id |-> id, rem |-> DepositDelay,
        card_pixmap |-> card_pixmap] >>

\* timer.start(350) and QTimer.singleShot(375, loop.quit): the timers one
\* set_overlay_custom call starts, in the order it starts them.
StartTimers(id, card_pixmap) ==
    << [kind |-> "update_overlay", id |-> id, rem |-> DepositDelay,
        card_pixmap |-> card_pixmap],
       [kind |-> "quit", id |-> id, rem |-> QuitDelay, card_pixmap |-> NoPixmap] >>

\* Timers that fire in any order once they are due.
DueInAnyOrder(i) == timers[i].rem = 0

\* Timer i is due and no timer of the same interval started before it is
\* still running.
Due(i) ==
    /\ timers[i].rem = 0
    /\ \A j \in 1..(i - 1) : timers[j].kind # timers[i].kind

Remove(seq, i) == SubSeq(seq, 1, i - 1) \o SubSeq(seq, i + 1, Len(seq))

\* set_overlay_custom up to loop.exec(): the event loop runs the oldest
\* queued callback.  The call stays on the stack while its loop runs, and
\* writes counts the assignments to active_border since it began, age the
\* time since then, and calls lists what the call has done so far.
set_overlay_custom ==
    /\ deferred # <<>>
    /\ LET cb == Head(deferred)
       IN  /\ deferred' = Tail(deferred)
           /\ active_border' = cb.frame
           /\ labels' = Faded(labels, TransitionCalls(active_border, cb.frame))
           /\ opacity_animation' = [startValue |-> 100, endValue |-> 0]
           /\ transition_overlay_visible' = TRUE
           /\ timers' = timers \o StartTimers(cb.id, cb.card_pixmap)
           /\ stack' = Append([i \in DOMAIN stack |->
                                  [stack[i] EXCEPT !.writes = @ + 1]],
                               [id |-> cb.id, frame |-> cb.frame, quit |-> FALSE,
                                writes |-> 1, age |-> 0,
                                card_pixmap |-> cb.card_pixmap,
                                calls |-> TransitionCalls(active_border, cb.frame)])
           /\ started' = Append(started, cb.id)
    /\ UNCHANGED overlay_pixmap
    /\ UNCHANGED <<sockState, script, delivered, reads, buffers, sockOps,
                   dispatched, completed>>
    /\ UNCHANGED fnVars

\* The 350 ms timer of a call fires: _update_overlay(card_pixmap).
update_overlay(i) ==
    /\ i \in DOMAIN timers
    /\ timers[i].kind = "update_overlay"
    /\ Due(i)
    /\ overlay_pixmap' = timers[i].card_pixmap
    /\ timers' = Remove(timers, i)
    /\ stack' = [n \in DOMAIN stack |->
                    IF stack[n].id = timers[i].id
                    THEN [stack[n] EXCEPT
                            !.calls = @ \o Call("setPixmap", "overlay", 0)]
                    ELSE stack[n]]
    /\ UNCHANGED <<started, active_border, labels, opacity_animation,
                   transition_overlay_visible>>
    /\ UNCHANGED netVars
    /\ UNCHANGED fnVars

\* The 375 ms timer of a call fires: loop.quit() of that call's loop.
loop_quit(i) ==
    /\ i \in DOMAIN timers
    /\ timers[i].kind = "quit"
    /\ Due(i)
    /\ stack' = [n \in DOMAIN stack |->
                    IF stack[n].id = timers[i].id
                    THEN [stack[n] EXCEPT !.quit = TRUE] ELSE stack[n]]
    /\ timers' = Remove(timers, i)
    /\ UNCHANGED <<started, active_border, labels, overlay_pixmap,
                   opacity_animation, transition_overlay_visible>>
    /\ UNCHANGED netVars
    /\ UNCHANGED fnVars

\* set_overlay_custom after loop.exec(): the innermost call continues once
\* its own loop has been told to quit.
set_overlay_custom_resume ==
    /\ stack # <<>>
    /\ stack[Len(stack)].quit
    /\ opacity_animation' = [startValue |-> 0, endValue |-> 100]
    /\ transition_overlay_visible' = FALSE
    /\ stack' = SubSeq(stack, 1, Len(stack) - 1)
    /\ UNCHANGED <<started, active_border, labels, overlay_pixmap, timers>>
    /\ UNCHANGED netVars
    /\ UNCHANGED fnVars

\* 25 ms pass: no timer is due, no callback is queued and no call is about
\* to leave its loop.  The timers of set_overlay_custom and the fades of the
\* labels run on.
Tick ==
    /\ timers # <<>> \/ \E l \in Labels : labels[l].state = "Running"
    /\ deferred = <<>>
    /\ IF stack = <<>> THEN TRUE ELSE ~stack[Len(stack)].quit
    /\ \A i \in DOMAIN timers : timers[i].rem > 0
    /\ timers' = [i \in DOMAIN timers |-> [timers[i] EXCEPT !.rem = @ - 1]]
    /\ stack' = [n \in DOMAIN stack |->
                    [stack[n] EXCEPT !.age = IF @ < QuitDelay THEN @ + 1 ELSE @]]
    /\ labels' = [l \in Labels |-> updateCurrentTime(labels[l])]
    /\ UNCHANGED <<started, active_border, overlay_pixmap,
                   opacity_animation, transition_overlay_visible>>
    /\ UNCHANGED netVars
    /\ UNCHANGED fnVars

Next ==
    \/ \E c \in Conns, s \in ScriptIds : handle_new_connection(c, s)
    \/ \E c \in Conns, k \in 1..MaxSegs : read_client(c, k)
    \/ \E c \in Conns : disconnected(c)
    \/ \E c \in Conns : peer_closed(c)
    \/ set_overlay_custom
    \/ \E i \in DOMAIN timers : update_overlay(i)
    \/ \E i \in DOMAIN timers : loop_quit(i)
    \/ set_overlay_custom_resume
    \/ Tick

Spec == Init /\ [][Next]_vars

\* ------------------------------------------- the transitions, by themselves
MaxRequests == 3

\* Frame keys a message can set: the default of a message without a card,
\* and frameType values of cards.
FrameKeys ==
    {<<"Default">>, <<"xyz">>, <<"spell">>, <<"xyz", "_", "pendulum">>}

\* The last line of read_client for a message whose frame key is frame:
\* the overlay update is queued.  The requests are numbered as they come.
schedule(frame) ==
    LET id == Len(started) + Len(deferred) + 1
        card_widget == [card_data |-> (FrameType :> frame) @@ (<<"name">> :> NatText(id)),
                        card_art |-> <<"PNG">>]
    IN  /\ id <= MaxRequests
        /\ deferred' = singleShot(deferred,
                           [id |-> id, frame |-> frame,
                            card_pixmap |-> render_to_pixmap(card_widget)])
        /\ UNCHANGED <<sockState, script, delivered, reads, buffers, sockOps,
                       dispatched, completed>>
        /\ UNCHANGED winVars
        /\ UNCHANGED fnVars

NextTransitions ==
    \/ \E frame \in FrameKeys : schedule(frame)
    \/ set_overlay_custom
    \/ \E i \in DOMAIN timers : update_overlay(i)
    \/ \E i \in DOMAIN timers : loop_quit(i)
    \/ set_overlay_custom_resume
    \/ Tick

SpecTransitions == Init /\ [][NextTransitions]_vars

\* The event loop runs whatever is due: every step but the arrival of a
\* request is taken when it stays possible.
EventLoop ==
    \/ set_overlay_custom
    \/ \E i \in DOMAIN timers : update_overlay(i)
    \/ \E i \in DOMAIN timers : loop_quit(i)
    \/ set_overlay_custom_resume
    \/ Tick

\* The requests of the runs that are followed to their end.
FairFrameKeys == {<<"Default">>, <<"xyz">>}

NextTransitionsFair ==
    \/ \E frame \in FairFrameKeys : schedule(frame)
    \/ EventLoop

SpecTransitionsFair ==
    Init /\ [][NextTransitionsFair]_vars /\ WF_vars(EventLoop)

\* -------------------------------------------- the functions, called alone
MaxLevel == 14
FrameSide == 2

\* A key the record does not carry.
Absent == [t |-> "absent", s |-> <<>>, n |-> 0]

Field(key, value) == IF value.t = "absent" THEN <<>> ELSE key :> value

FrameTypeInputs ==
    {PyStr(<<"normal">>), PyStr(<<"xyz">>), PyStr(<<"XYZ">>), PyStr(<<"link">>),
     PyStr(<<"spell">>), PyStr(<<"trap">>), PyStr(<<"effect", "_", "pendulum">>),
     PyStr(<<"xyz", "_", "pendulum">>), PyStr(<<"pendulum", "_", "effect">>),
     Absent}

TypeInputs ==
    {PyStr(<<"Effect Monster">>), PyStr(<<"Spell Card">>), PyStr(<<"Trap Card">>),
     Absent}

LevelInputs ==
    {PyInt(n) : n \in (0 - MaxLevel)..MaxLevel}
    \cup {PyStr(<<"4">>), PyStr(<<"1", "5">>), PyStr(<<"-", "3">>),
          PyStr(<<"a", "b", "c">>), PyStr(<<>>), PyNone, Absent}

\* The other fields of the record: none, or those of a monster.
OtherFieldInputs ==
    {<<>>,
     (<<"atk">> :> PyInt(1800)) @@ (<<"def">> :> PyInt(-1))
        @@ (<<"linkval">> :> PyInt(2))
        @@ (<<"linkmarkers">> :> PyList(<<"Top", "Bottom">>))
        @@ (<<"attribute">> :> PyStr(<<"DARK">>))}

CardInputs ==
    {Field(<<"frameType">>, ft) @@ Field(<<"type">>, ty) @@ Field(<<"level">>, lv)
        @@ other :
        ft \in FrameTypeInputs, ty \in TypeInputs, lv \in LevelInputs,
        other \in OtherFieldInputs}

AlphaInputs == {0, 128, 255}

FrameInputs ==
    {[w |-> FrameSide, h |-> FrameSide, px |-> px] :
        px \in [Pixels(FrameSide, FrameSide) ->
                  {[hue |-> 10, sat |-> 128, val |-> 100, a |-> a] :
                      a \in AlphaInputs}]}

RegionInputs ==
    {<<>>, <<0, 0, 1, 1>>, <<1, 0, 1, FrameSide>>, <<1, 1, FrameSide, FrameSide>>,
     <<0, 0, FrameSide, FrameSide>>}

\* Descriptions of 2, 4, ... words of twenty letters, quoted or not, on a
\* normal, an effect, a pendulum and a spell card.
MaxDescWords == 24

DescInputs ==
    {[words |-> 2 * k, word_len |-> 20, quoted |-> q] :
        k \in 1..MaxDescWords, q \in BOOLEAN}

DescCardInputs ==
    {Field(<<"frameType">>, PyStr(<<"normal">>)),
     Field(<<"frameType">>, PyStr(<<"effect">>)),
     Field(<<"frameType">>, PyStr(<<"xyz", "_", "pendulum">>)),
     Field(<<"frameType">>, PyStr(<<"spell">>))
        @@ Field(<<"type">>, PyStr(<<"Spell Card">>))}

InitRender ==
    /\ Constructed
    /\ result = NoResult
    /\ sprite = NoSprite
    /\ \/ \E card_data \in CardInputs :
             call = [fn |-> "render_to_pixmap", card_data |-> card_data]
       \/ \E card_data \in DescCardInputs, text \in DescInputs :
             call = [fn |-> "draw_description", card_data |-> card_data,
                     text |-> text]
       \/ \E frame \in FrameInputs, hue \in {0, 30}, saturation \in {10, 8},
               brightness \in {0, 120}, region \in RegionInputs :
             call = [fn |-> "adjust_frame", frame |-> frame, hue |-> hue,
                     saturation |-> saturation, brightness |-> brightness,
                     region |-> region]

\* paintEvent and render_to_pixmap: the card is drawn.
paintEvent ==
    /\ call.fn = "render_to_pixmap"
    /\ ~result.done
    /\ result' = [done |-> TRUE, val |-> draw_card_content(call.card_data)]
    /\ UNCHANGED <<call, sprite>>
    /\ UNCHANGED netVars
    /\ UNCHANGED winVars

\* set_webp: one frame of the asset is adjusted.
set_webp ==
    /\ call.fn = "adjust_frame"
    /\ ~result.done
    /\ result' = [done |-> TRUE,
                  val |-> adjust_frame(call.frame, call.hue, call.saturation,
                                       call.brightness, call.region)]
    /\ UNCHANGED <<call, sprite>>
    /\ UNCHANGED netVars
    /\ UNCHANGED winVars

\* _draw_description alone: the description is fitted and drawn.
draw_description_call ==
    /\ call.fn = "draw_description"
    /\ ~result.done
    /\ result' = [done |-> TRUE,
                  val |-> draw_description_fitted(
                              call.card_data,
                              contains(frame_type(call.card_data), "pendulum"),
                              call.text)]
    /\ UNCHANGED <<call, sprite>>
    /\ UNCHANGED netVars
    /\ UNCHANGED winVars

NextRender == paintEvent \/ set_webp \/ draw_description_call

SpecRender == InitRender /\ [][NextRender]_vars

\* ------------------------------------------------- one sprite, by itself
MaxFrames == 3

\* The fade durations and the opacities the sprite is called with.
SpriteDurations == {2 * TimeUnitMs, 4 * TimeUnitMs}
SpriteOpacities == {0, 30, 100}

IsWebP(label) == "opacity" \in DOMAIN label

\* What a call finds: the part of the label's state before it.
Before(label) ==
    IF IsWebP(label)
    THEN [timer_active |-> label.timer_active, current_frame |-> label.current_frame,
          state |-> label.state, endValue |-> label.endValue,
          opacity |-> label.opacity]
    ELSE [timer_active |-> label.timer_active, current_frame |-> label.current_frame,
          state |-> "Stopped", endValue |-> 0, opacity |-> 0]

\* call holds the most recent call made on the sprite, what it found, and
\* the opacity the most recent fade_in, fade_out or set_opacity asks for
\* (-1: none yet).
Called(fn, arg, target) ==
    [fn |-> fn, arg |-> arg, before |-> Before(sprite), target |-> target]

InitSprite ==
    /\ Constructed
    /\ result = NoResult
    /\ \/ \E initial_opacity \in {0, 100} :
             /\ sprite = AnimatedWebPLabel(initial_opacity)
             /\ call = [fn |-> "__init__", arg |-> initial_opacity,
                        before |-> Before(AnimatedWebPLabel(initial_opacity)),
                        target |-> -1]
       \/ /\ sprite = AnimatedAPNGLabel
          /\ call = [fn |-> "__init__", arg |-> 0,
                     before |-> Before(AnimatedAPNGLabel), target |-> -1]

\* set_webp or set_apng of a file of frame_count frames.
call_set_webp(frame_count) ==
    /\ sprite' = set_webp_frames(sprite, frame_count)
    /\ call' = Called("set_webp", frame_count, call.target)
    /\ UNCHANGED result
    /\ UNCHANGED netVars
    /\ UNCHANGED winVars

\* The 42 ms timer of the sprite times out: next_frame.
next_frame ==
    /\ sprite.timer_active
    /\ sprite' = update_frame(sprite)
    /\ UNCHANGED <<call, result>>
    /\ UNCHANGED netVars
    /\ UNCHANGED winVars

call_restart ==
    /\ ~IsWebP(sprite)
    /\ sprite' = restart(sprite)
    /\ call' = Called("restart", 0, call.target)
    /\ UNCHANGED result
    /\ UNCHANGED netVars
    /\ UNCHANGED winVars

call_fade_in(duration) ==
    /\ IsWebP(sprite)
    /\ sprite' = fade_in(sprite, duration)
    /\ call' = Called("fade_in", duration, 100)
    /\ UNCHANGED result
    /\ UNCHANGED netVars
    /\ UNCHANGED winVars

call_fade_out(duration) ==
    /\ IsWebP(sprite)
    /\ sprite' = fade_out(sprite, duration)
    /\ call' = Called("fade_out", duration, 0)
    /\ UNCHANGED result
    /\ UNCHANGED netVars
    /\ UNCHANGED winVars

call_set_opacity(opacity) ==
    /\ IsWebP(sprite)
    /\ sprite' = set_opacity(sprite, opacity)
    /\ call' = Called("set_opacity", opacity, opacity)
    /\ UNCHANGED result
    /\ UNCHANGED netVars
    /\ UNCHANGED winVars

\* 25 ms of the sprite's fade pass.
fade_animation_time ==
    /\ IsWebP(sprite)
    /\ sprite.state = "Running"
    /\ sprite' = updateCurrentTime(sprite)
    /\ UNCHANGED <<call, result>>
    /\ UNCHANGED netVars
    /\ UNCHANGED winVars

NextSprite ==
    \/ \E frame_count \in 1..MaxFrames : call_set_webp(frame_count)
    \/ next_frame
    \/ call_restart
    \/ \E duration \in SpriteDurations : call_fade_in(duration)
    \/ \E duration \in SpriteDurations : call_fade_out(duration)
    \/ \E opacity \in SpriteOpacities : call_set_opacity(opacity)
    \/ fade_animation_time

SpecSprite == InitSprite /\ [][NextSprite]_vars


\* ================================================================ claims
Last(seq) == seq[Len(seq)]

\* The first message of connection c's sender, as bytes and as decoded.
Message(c) ==
    Flatten(SubSeq(Scripts[script[c]].segs, 1, Scripts[script[c]].cut))
MessageEnd(c) == Scripts[script[c]].cut

Count(seq, x) == Cardinality({i \in DOMAIN seq : seq[i] = x})

AckWrites(c) ==
    Cardinality({i \in DOMAIN sockOps[c] : sockOps[c][i].op = "write"})

IsNewCard(data) == Status \in DOMAIN data /\ data[Status] = NewCard

\* C1: on every connection where read_client has parsed a complete JSON
\* message the server has written exactly ACK and nothing else and asked for
\* the close after that write, and it has written nothing on a connection
\* whose message is not complete.
C1_AckForEveryParsedMessage ==
    \A c \in Conns :
        /\ dispatched[c] # <<>> => sockOps[c] = Respond
        /\ dispatched[c] = <<>> => sockOps[c] = <<>>

\* C2: while the bytes received of a JSON object message are not the whole
\* message, the accumulator holds exactly the bytes received and nothing is
\* dispatched; once the last read has brought the rest, the accumulator is
\* empty and the message has been dispatched exactly once.
C2_BufferedUntilComplete ==
    \A c \in Conns :
        (script[c] # 0 /\ Decode(Message(c)).ok) =>
            /\ delivered[c] < MessageEnd(c) =>
                    /\ c \in DOMAIN buffers /\ buffers[c] = Received(c)
                    /\ dispatched[c] = <<>>
                    /\ sockOps[c] = <<>>
            /\ delivered[c] = MessageEnd(c) =>
                    /\ c \in DOMAIN buffers => buffers[c] = <<>>
                    /\ dispatched[c] = <<Decode(Message(c)).val>>
            /\ delivered[c] > MessageEnd(c) =>
                    Count(dispatched[c], Decode(Message(c)).val) = 1

\* A message that came in three reads and was dispatched once.
C2_Witness ==
    \E c \in Conns :
        /\ script[c] # 0 /\ Decode(Message(c)).ok
        /\ delivered[c] = MessageEnd(c) /\ reads[c] = 3
        /\ c \in DOMAIN buffers /\ buffers[c] = <<>>
        /\ Len(dispatched[c]) = 1

\* C3: set_overlay_custom never starts while an earlier call has started
\* and has not yet returned: transitions never nest or overlap.
C3_TransitionsSerialized == Len(stack) <= 1

\* C4: a complete message with no status field is answered with ACK, and
\* the overlay update it causes leaves active_border as it was.
C4_NoStatusKeepsActiveBorder ==
    [][\A c \in Conns :
          /\ (dispatched'[c] # dispatched[c]
                 /\ Status \notin DOMAIN Last(dispatched'[c]))
                => sockOps'[c] = Respond
          /\ (started' = Append(started, c)
                 /\ Status \notin DOMAIN Last(dispatched[c]))
                => active_border' = active_border]_vars

\* The connections whose message was answered, in the order the messages
\* completed.
ScheduledOrder ==
    LET done == SelectSeq(completed, LAMBDA e : e.scheduled)
    IN  [i \in DOMAIN done |-> done[i].conn]

\* C5: overlay updates begin in the order their messages completed.
C5_UpdatesInCompletionOrder ==
    /\ Len(started) <= Len(ScheduledOrder)
    /\ started = SubSeq(ScheduledOrder, 1, Len(started))

\* Two updates have begun, the first for the connection accepted second.
C5_Witness == started = <<2, 1>>

\* C6: active_border is written exactly once between the start and the end
\* of each transition, to that transition's frame key.
C6_ActiveBorderWrittenOncePerTransition ==
    /\ \A i \in DOMAIN stack : stack[i].writes = 1
    /\ stack # <<>> => active_border = Last(stack).frame

\* C7: at most one message is dispatched and at most one ACK written on any
\* one connection.
C7_OneRequestPerConnection ==
    \A c \in Conns : Len(dispatched[c]) <= 1 /\ AckWrites(c) <= 1

\* C8: every message whose bytes have all arrived, in however many reads
\* and however interleaved with the reads of other connections, has been
\* decoded whole and dispatched exactly once, and a read for one connection
\* leaves the accumulator of every other connection as it was.
C8_InterleavedMessages ==
    /\ [](\A c \in Conns :
            (script[c] # 0 /\ Decode(Message(c)).ok
                /\ delivered[c] >= MessageEnd(c)) =>
               /\ dispatched[c] # <<>>
               /\ dispatched[c][1] = Decode(Message(c)).val
               /\ Count(dispatched[c], dispatched[c][1]) = 1)
    /\ [][\A c, d \in Conns :
            (c # d /\ delivered'[c] # delivered[c] /\ d \in DOMAIN buffers) =>
               (d \in DOMAIN buffers' /\ buffers'[d] = buffers[d])]_vars

\* Two messages, each arrived in three reads, both dispatched once; the one
\* accepted second completed first.
C8_Witness ==
    /\ \A c \in Conns :
          /\ script[c] # 0 /\ Decode(Message(c)).ok
          /\ reads[c] = 3 /\ delivered[c] = MessageEnd(c)
          /\ Len(dispatched[c]) = 1
    /\ Len(completed) = 2 /\ completed[1].conn = 2

\* The artwork of a NewCard message does not decode to an image.
BadArtwork(data) ==
    /\ IsNewCard(data)
    /\ json_loads(get(data, CardData, <<>>)).ok
    /\ LET image_data == b64decode(get(data, CardImage, <<>>))
       IN  ~(image_data.ok /\ loadFromData(image_data.data))

\* C9: after a NewCard message with invalid base64 or undecodable artwork no
\* transition is started for it, active_border and the overlay are as they
\* were, and the connection's entry is not left in buffers.
C9_BadArtworkConfined ==
    \A c \in Conns :
        (dispatched[c] # <<>> /\ BadArtwork(Last(dispatched[c]))) =>
            /\ \A i \in DOMAIN deferred : deferred[i].id # c
            /\ \A i \in DOMAIN started : started[i] # c
            /\ c \notin DOMAIN buffers

\* C10: a NewCard message without card_data changes nothing and is still
\* answered: ACK is written and the close is requested.
C10_MissingCardDataAnswered ==
    \A c \in Conns :
        (dispatched[c] # <<>> /\ IsNewCard(Last(dispatched[c]))
            /\ CardData \notin DOMAIN Last(dispatched[c])) =>
            /\ sockOps[c] = Respond
            /\ sockState[c] \in {"closing", "unconnected"}

StarsDrawn(op) ==
    Cardinality({i \in DOMAIN result.val : result.val[i].op = op})

\* C13: for a card that is not a spell or trap, the number of stars drawn
\* is the integer level limited to 0..12 (level stars) or 0..13 (rank stars
\* of an xyz frame), also for negative levels and levels above the limit,
\* and no star of the other kind is drawn; with no level, or a level that
\* is not a number, no star is drawn and the render goes on.
C13_StarCountIsClampedLevel ==
    (call.fn = "render_to_pixmap" /\ result.done
        /\ ~IsSpellTrapType(call.card_data)) =>
        LET level == get(call.card_data, <<"level">>, Absent)
            xyz == <<"frameType">> \in DOMAIN call.card_data
                     /\ call.card_data[<<"frameType">>].s[1] \in {"xyz", "XYZ"}
            limit == IF xyz THEN 13 ELSE 12
            drawn == StarsDrawn(IF xyz THEN "rank_star" ELSE "level_star")
            other == StarsDrawn(IF xyz THEN "level_star" ELSE "rank_star")
        IN  /\ other = 0
            /\ level.t = "int" =>
                  drawn = (IF level.n < 0 THEN 0
                           ELSE IF level.n > limit THEN limit ELSE level.n)
            /\ (level.t \in {"absent", "NoneType"}
                  \/ (level.t = "str" /\ level.s \in {<<"a", "b", "c">>, <<>>})) =>
                  drawn = 0
            /\ Last(result.val).op = "extra"

\* Thirteen rank stars for a rank above thirteen, twelve level stars for a
\* level above twelve, and none for a negative level.
C13_Witness ==
    /\ call.fn = "render_to_pixmap" /\ result.done
    /\ <<"level">> \in DOMAIN call.card_data
    /\ call.card_data[<<"level">>].t = "int"
    /\ call.card_data[<<"level">>].n = 14
    /\ StarsDrawn("rank_star") = 13

\* Pixel q of the frame lies inside the region <<x, y, w, h>>.
InRegion(q, region) ==
    /\ region[1] <= q[1] /\ q[1] < region[1] + region[3]
    /\ region[2] <= q[2] /\ q[2] < region[2] + region[4]

\* C14: after adjust_frame with a region, every pixel outside the region
\* and every pixel inside it whose alpha was below 255 has the hue,
\* saturation, value and alpha it had before, for every hue, saturation
\* and brightness; the frame keeps its size.
C14_RegionAdjustKeepsOtherPixels ==
    (call.fn = "adjust_frame" /\ result.done /\ call.region # <<>>) =>
        /\ DOMAIN result.val.px = DOMAIN call.frame.px
        /\ \A q \in DOMAIN call.frame.px :
              (~InRegion(q, call.region) \/ call.frame.px[q].a < 255) =>
                  result.val.px[q] = call.frame.px[q]

\* An opaque pixel inside the region has changed, next to a translucent
\* pixel inside it and an opaque pixel outside it that have not.
C14_Witness ==
    /\ call.fn = "adjust_frame" /\ result.done /\ call.region # <<>>
    /\ \E q \in DOMAIN call.frame.px :
          /\ InRegion(q, call.region) /\ call.frame.px[q].a = 255
          /\ result.val.px[q] # call.frame.px[q]
    /\ \E q \in DOMAIN call.frame.px :
          /\ InRegion(q, call.region) /\ call.frame.px[q].a = 128
          /\ result.val.px[q] = call.frame.px[q]
    /\ \E q \in DOMAIN call.frame.px :
          /\ ~InRegion(q, call.region) /\ call.frame.px[q].a = 255
          /\ result.val.px[q] = call.frame.px[q]

\* The painter was asked for a drawing of this kind, or for this text.
Painted(op) == \E i \in DOMAIN result.val : result.val[i].op = op
PaintedText(text) ==
    \E i \in DOMAIN result.val :
        result.val[i].op = "text" /\ result.val[i].arg = <<text>>

\* C15: the render of a card whose frameType is "link" draws no level star
\* and no rank star, whatever level the record carries, and draws the LINK
\* rating in place of the DEF value.
C15_LinkHasNoStarsAndLinkPanel ==
    (call.fn = "render_to_pixmap" /\ result.done
        /\ <<"frameType">> \in DOMAIN call.card_data
        /\ call.card_data[<<"frameType">>].s = <<"link">>) =>
        /\ StarsDrawn("level_star") = 0 /\ StarsDrawn("rank_star") = 0
        /\ PaintedText("LINK") /\ Painted("link_rating")
        /\ ~PaintedText("DEF/")

\* C16: the render of a spell or trap card draws no star, no typeline, no
\* ATK/DEF or LINK block and no separator, the render of any other card
\* draws the stat block and the separator, and every drawing step of one
\* render takes the card for a spell or trap or none does.
C16_SpellTrapHasNoMonsterBlocks ==
    (call.fn = "render_to_pixmap" /\ result.done) =>
        LET byType == IsSpellTrapType(call.card_data)
            byFrameType == frame_type(call.card_data) \in {<<"trap">>, <<"spell">>}
        IN  /\ byType =>
                  /\ StarsDrawn("level_star") = 0 /\ StarsDrawn("rank_star") = 0
                  /\ ~Painted("typeline") /\ ~PaintedText("ATK/")
                  /\ ~PaintedText("DEF/") /\ ~PaintedText("LINK")
                  /\ ~Painted("separator")
            /\ ~byType => (PaintedText("ATK/") /\ Painted("separator"))
            /\ byType <=> byFrameType
            /\ Painted("spell_trap_text") <=> byType

\* The places of a call in a list of calls.
Places(calls, op, widget) ==
    {i \in DOMAIN calls : calls[i].op = op /\ calls[i].widget = widget}

C18_DepositBeforeRestore ==
    [][/\ overlay_pixmap' # overlay_pixmap =>
            \E n \in DOMAIN stack :
                /\ Places(stack[n].calls, "setPixmap", "overlay") = {}
                /\ Places(stack'[n].calls, "setPixmap", "overlay") # {}
                /\ stack[n].age * TimeUnitMs = 350
                /\ ~stack[n].quit
                /\ overlay_pixmap' = stack[n].card_pixmap
       /\ Len(stack') < Len(stack) =>
            /\ Places(Last(stack).calls, "setPixmap", "overlay") # {}
            /\ Last(stack).age * TimeUnitMs >= 375
            /\ opacity_animation' = [startValue |-> 0, endValue |-> 100]
            /\ ~transition_overlay_visible'
       /\ (opacity_animation'.endValue = 100 /\ opacity_animation.endValue = 0) =>
            Len(stack') < Len(stack)]_vars

\* A transition has ended with its own image on the overlay.
C18_Witness ==
    /\ stack = <<>> /\ timers = <<>> /\ Len(started) = 1
    /\ overlay_pixmap # NoPixmap
    /\ overlay_pixmap.card[<<"frameType">>] = active_border
    /\ opacity_animation = [startValue |-> 0, endValue |-> 100]
    /\ ~transition_overlay_visible

\* The places of the fades a transition issues to its labels.
FadePlaces(calls) == {i \in DOMAIN calls : calls[i].op \in {"fade_in", "fade_out"}}

\* C19: in every transition the fade-in of the label named by the frame key
\* is issued only after the opacity dip has started and the new image has
\* been deposited, and before the opacity restore.
C19_FadeInAfterDeposit ==
    [][Len(stack') < Len(stack) =>
        LET calls == Last(stack).calls
            new == get_border_widget(Last(stack).frame)
        IN  new # "None" =>
              \E j \in Places(calls, "fade_in", new) :
                  /\ \E d \in Places(calls, "opacity_animation.start", "overlay") : d < j
                  /\ \E p \in Places(calls, "setPixmap", "overlay") : p < j]_vars

\* C19 as the code has it: a transition issues all its fades first, the
\* fade-in of the label named by the frame key among them, then starts the
\* opacity dip, then deposits the image and then restores the opacity: the
\* fade-in of the new label comes before the dip and the deposit.
C19_FadesThenDipThenDepositThenRestore ==
    [][Len(stack') < Len(stack) =>
        LET calls == Last(stack).calls
            new == get_border_widget(Last(stack).frame)
        IN  /\ new # "None" => Places(calls, "fade_in", new) # {}
            /\ \E d \in Places(calls, "opacity_animation.start", "overlay") :
                  /\ \A i \in FadePlaces(calls) : i < d
                  /\ Places(calls, "setPixmap", "overlay") = {Len(calls)}
                  /\ d < Len(calls)
            /\ opacity_animation' = [startValue |-> 0, endValue |-> 100]]_vars

\* A transition to a frame key that names a label has run to its end.
C19_Witness ==
    /\ stack = <<>> /\ timers = <<>> /\ started # <<>>
    /\ get_border_widget(active_border) # "None"
    /\ labels[get_border_widget(active_border)].endValue = 100
    /\ overlay_pixmap # NoPixmap
    /\ opacity_animation = [startValue |-> 0, endValue |-> 100]

\* C20: the pendulum label's opacity target is 1.0 exactly when
\* active_border is a pendulum variant, and the targets of the description
\* and art-frame labels are 1.0 exactly when it is not.
C20_PendulumLayersInverse ==
    LET pendulum == active_border \in {<<"effect", "_", "pendulum">>,
                                       <<"xyz", "_", "pendulum">>}
    IN  /\ active_border \in FrameKeys \cup {<<"token">>}
        /\ labels["webp_main_pendulum_label"].endValue = (IF pendulum THEN 100 ELSE 0)
        /\ labels["webp_desc_label"].endValue = (IF pendulum THEN 0 ELSE 100)
        /\ labels["webp_artframe_label"].endValue = (IF pendulum THEN 0 ELSE 100)

\* The third transition goes from one pendulum variant to another, after
\* one that went from a pendulum variant to a frame that is none.
C20_Witness ==
    /\ Len(started) = 3 /\ stack # <<>>
    /\ Places(Last(stack).calls, "fade_out", "webp_main_pendulum_label") # {}
    /\ Places(Last(stack).calls, "fade_in", "webp_main_pendulum_label") # {}
    /\ labels["webp_main_pendulum_label"].endValue = 100

\* C21: across any sequence of fade_in, fade_out and set_opacity calls and
\* of animation completions on one sprite, the 42 ms timer of the sprite
\* is never stopped while the opacity of the sprite is above 0.
C21_TimerStoppedOnlyAtZeroOpacity ==
    [][(IsWebP(sprite) /\ sprite.timer_active /\ ~sprite'.timer_active)
          => sprite'.opacity = 0]_vars

\* C22: fade_in sets the frame index of the sprite to 0 and leaves its
\* 42 ms timer running, whatever the state of the sprite before the call.
C22_FadeInResetsAndCycles ==
    [][\A duration \in SpriteDurations :
          call_fade_in(duration) =>
              /\ sprite'.current_frame = 0
              /\ sprite'.timer_active
              /\ sprite'.state = "Running" /\ sprite'.endValue = 100]_vars

\* A fade_in has just been made on a sprite that a completed fade-out had
\* stopped away from its first frame.
C22_Witness ==
    /\ call.fn = "fade_in"
    /\ ~call.before.timer_active /\ call.before.current_frame # 0
    /\ call.before.state = "Stopped" /\ call.before.opacity = 0
    /\ sprite.timer_active /\ sprite.current_frame = 0
    /\ sprite.state = "Running" /\ sprite.currentTime = 0

\* C23: a sprite has one fade animation, and each fade_in, fade_out or
\* set_opacity call stops it before taking effect: a fade in flight is that
\* of the most recent call, and the opacity a sprite comes to rest at is the
\* target of the most recent call (100, 0 or the given value), never that
\* of a call it superseded.
C23_OpacityConvergesToLastTarget ==
    (IsWebP(sprite) /\ call.target >= 0) =>
        /\ sprite.state = "Running" =>
              (call.fn \in {"fade_in", "fade_out", "set_webp"}
               /\ sprite.endValue = call.target)
        /\ sprite.state = "Stopped" => sprite.opacity = call.target

\* A fade_in superseded a fade-out in flight and the sprite has come to rest
\* at full opacity.
C23_Witness ==
    /\ call.fn = "fade_in"
    /\ call.before.state = "Running" /\ call.before.endValue = 0
    /\ call.before.opacity \notin {0, 100}
    /\ sprite.state = "Stopped" /\ sprite.opacity = 100

\* C24, as stated: each timeout of the timer of a sprite with frames
\* advances the frame index by 1 modulo the number of frames and shows the
\* frame at the new index.
C24_TickShowsFrameAtNewPosition ==
    [][(next_frame /\ sprite.frames > 0) =>
          /\ sprite'.current_frame = (sprite.current_frame + 1) % sprite.frames
          /\ sprite'.pixmap = sprite'.current_frame]_vars

\* C24, amended: each timeout shows the frame at the index it finds and
\* then advances the index by 1 modulo the number of frames, so that the
\* frame shown is the one before the new index; and the index of a sprite
\* with frames is always in 0 .. frames - 1.
C24_TickShowsFrameThenAdvances ==
    [][/\ (next_frame /\ sprite.frames > 0) =>
             /\ sprite'.pixmap = sprite.current_frame
             /\ sprite'.current_frame = (sprite.current_frame + 1) % sprite.frames
       /\ sprite'.frames > 0 => sprite'.current_frame \in 0..(sprite'.frames - 1)]_vars

\* The timer has wrapped a sprite of three frames round to its first frame
\* after a restart or a fade_in.
C24_Witness ==
    /\ sprite.frames = MaxFrames
    /\ call.fn \in {"restart", "fade_in"}
    /\ sprite.pixmap = MaxFrames - 1 /\ sprite.current_frame = 0

\* The font sizes and letter spacings the search may try for a text that
\* is to fit a rectangle, and those among them with which it fits.
Tried(min_font_size) == (min_font_size..12) \X {0, -1, -2}

Fitting(fit) ==
    {c \in Tried(fit.min_font_size) :
        boundingHeight(fit.rect, fit.words,
                       [font_size |-> c[1], letter_spacing |-> c[2]]) <= fit.rect.h}

\* C25: the fit search of every description takes the largest font size
\* from 12 down to the minimum (9, or 8 for the pendulum effect box) and,
\* at that size, the first of the letter spacings 0, -0.5, -1.0, with which
\* the word-wrapped text is no higher than the rectangle; when there is
\* none it takes the minimum size with spacing -1.0.
C25_FirstFittingFontOrSmallest ==
    (call.fn = "draw_description" /\ result.done) =>
        /\ [i \in DOMAIN result.val |-> result.val[i].min_font_size]
              \in {<<9>>, <<8, 9>>}
        /\ \A i \in DOMAIN result.val :
              LET fit == result.val[i]
                  chosen == <<fit.font.font_size, fit.font.letter_spacing>>
              IN  IF Fitting(fit) = {}
                  THEN chosen = <<fit.min_font_size, -2>>
                  ELSE /\ chosen \in Fitting(fit)
                       /\ \A c \in Fitting(fit) :
                             \/ c[1] < chosen[1]
                             \/ c[1] = chosen[1] /\ c[2] <= chosen[2]

\* A pendulum card whose text fits neither of its boxes at any size: the
\* effect box takes size 8 and the lower box size 9, both at spacing -1.0.
C25_Witness ==
    /\ call.fn = "draw_description" /\ result.done
    /\ Len(result.val) = 2
    /\ Fitting(result.val[1]) = {} /\ Fitting(result.val[2]) = {}
    /\ result.val[1].font.font_size = 8
    /\ result.val[1].font.letter_spacing = -2
    /\ result.val[2].font.font_size = 9
    /\ result.val[2].font.letter_spacing = -2

\* No transition is waiting and none is queued.
Idle == stack = <<>> /\ timers = <<>> /\ deferred = <<>>

\* C26: after every completed transition whose frame key names a label,
\* that label has opacity target 1.0 and, once its fade-in has finished,
\* its 42 ms timer still runs; the same holds of the pendulum label after
\* a transition to a pendulum key.  This includes a transition from a key
\* that names the same label.
C26_ActiveSpriteCyclesAfterFadeIn ==
    (Idle /\ started # <<>>) =>
        LET widget == get_border_widget(active_border)
            shown == (IF widget # "None" THEN {widget} ELSE {})
                     \cup (IF IsPendulumBorder(active_border)
                           THEN {"webp_main_pendulum_label"} ELSE {})
        IN  \A l \in shown :
               /\ labels[l].endValue = 100
               /\ labels[l].state = "Stopped" =>
                     (labels[l].opacity = 100 /\ labels[l].timer_active)

\* The labels of the main frame sets.
MainLabels ==
    {"webp_main_token_label", "webp_main_spell_label", "webp_main_trap_label",
     "webp_main_label", "webp_main_normal_label", "webp_main_ritual_label",
     "webp_main_fusion_label", "webp_main_synchro_label", "webp_link_label",
     "webp_xyz_label"}

\* The label of a main frame set that a key names: that of the token for
\* the key the window starts with.
NamedLabel(border) ==
    IF border = <<"token">> THEN "webp_main_token_label"
    ELSE get_border_widget(border)

\* C27: after any sequence of completed transitions from the initial
\* state, every label of a main frame set other than the one active_border
\* names has opacity target 0.0.
C27_OnlyActiveMainSpriteShown ==
    Idle =>
        \A l \in MainLabels \ {NamedLabel(active_border)} : labels[l].endValue = 0

\* C28: also when requests start while an earlier transition is in its
\* 375 ms wait, once no timer is pending the overlay shows the image
\* rendered for the transition started last and active_border is the frame
\* key of that transition; and no transition goes on to its opacity restore
\* while the deposit of a started transition is pending.
C28_LastStartedWinsAndRestoreAfterDeposits ==
    [][/\ (Idle' /\ started' # <<>>) =>
             /\ overlay_pixmap'.card[<<"name">>] = NatText(Last(started'))
             /\ overlay_pixmap'.card[FrameType] = active_border'
       /\ Len(stack') < Len(stack) =>
             \A i \in DOMAIN timers : timers[i].kind # "update_overlay"]_vars

\* A second transition began during the wait of the first, both waits are
\* over, and the overlay shows the image of the second.
C28_Witness ==
    /\ Len(stack) = 2 /\ stack[1].quit /\ stack[2].quit
    /\ stack[1].frame # stack[2].frame
    /\ stack[2].id = Last(started)
    /\ overlay_pixmap.card[<<"name">>] = NatText(stack[2].id)
    /\ active_border = stack[2].frame
    /\ timers = <<>>

\* C29: when finitely many requests arrive, every transition that has
\* started goes on to start the reverse opacity animation toward 1.0 and to
\* hide the transition asset, also when further transitions start during
\* its wait: the window comes back to rest with the overlay's opacity
\* target at 1.0 and the transition asset hidden.
C29_EveryTransitionCompletes ==
    (stack # <<>>) ~>
        (/\ stack = <<>>
         /\ opacity_animation = [startValue |-> 0, endValue |-> 100]
         /\ ~transition_overlay_visible)

\* A transition that began during the wait of another has started its
\* reverse animation and hidden the transition asset, and the other, its
\* own wait over, is about to do the same.
C29_Witness ==
    /\ Len(stack) = 1 /\ stack[1].quit /\ stack[1].writes >= 2
    /\ Last(started) # stack[1].id
    /\ timers = <<>> /\ deferred = <<>>
    /\ opacity_animation = [startValue |-> 0, endValue |-> 100]
    /\ ~transition_overlay_visible

\* The frame key read_client hands to set_overlay_custom for a card record.
FrameKeyOf(card_data) ==
    IF <<"frameType">> \in DOMAIN card_data
    THEN card_data[<<"frameType">>].s ELSE DefaultFrame

\* C30: for every frameType a message can carry, the card is rendered as a
\* pendulum card exactly when set_overlay_custom takes the frame key for a
\* pendulum variant, and the frame family the render goes by (xyz, link,
\* spell, trap) is that of the label get_border_widget selects for the key,
\* whatever the letter case and wherever "pendulum" stands in the tag.
C30_CompositorAndOrchestratorAgree ==
    (call.fn = "render_to_pixmap" /\ result.done) =>
        LET key == FrameKeyOf(call.card_data)
            family == frame_type(call.card_data)
            widget == get_border_widget(key)
        IN  /\ Painted("pendulum_frame") <=> IsPendulumBorder(key)
            /\ startswith(family, "xyz") <=> widget = "webp_xyz_label"
            /\ family = <<"link">> <=> widget = "webp_link_label"
            /\ family = <<"spell">> <=> widget = "webp_main_spell_label"
            /\ family = <<"trap">> <=> widget = "webp_main_trap_label"

====
